---- MODULE Spec2Model ----
(***************************************************************************)
(* Verification model of the procedural lighthouse generator               *)
(* (backend/cliff.py, backend/tower.py, backend/lighthouse.py,             *)
(* backend/config.py, ui/simple_ui.py, run_in_maya.py).                    *)
(*                                                                         *)
(* Five specifications share the module:                                   *)
(*   SpecPlace  the stable-top placement solver (lighthouse.py,            *)
(*              run_in_maya.py)                                            *)
(*   SpecNoise  the seeded vertex deformer of the cliff (cliff.py)         *)
(*   Spec       the scene graph: groups, meshes, shading nodes, the sea    *)
(*              and the backdrop, cleanup                                  *)
(*   SpecUI     the front end on that scene: presets, build_lighthouse,    *)
(*              run (config.py, simple_ui.py, run_in_maya.py)              *)
(*   SpecTower  the tower mesh face by face: taper, bands, lantern roof    *)
(*              (tower.py)                                                 *)
(*                                                                         *)
(* Numbers: the code computes in floating point.  The model computes the   *)
(* same expressions exactly, in fixed point: every length is an integer    *)
(* count of 1/Scale world units, and Scale is chosen so that every         *)
(* division the code performs on the modelled inputs (the mean of a top    *)
(* slice, the halving of a bounding-box sum, the 0.95 roof factor) is      *)
(* exact.  Rounding error is therefore outside the model.                  *)
(***************************************************************************)
EXTENDS Integers, Sequences, FiniteSets, TLC

\* ---------------------------------------------------------------- bounds
\* Largest number of cliff vertices enumerated by the placement solver.
MaxVerts == 3

\* Cliff vertex heights range over 0 .. MaxLevel world units.
MaxLevel == 2

\* Top-level builds (CliffBuilder, TowerBuilder, LighthouseBuilder) started.
MaxBuilds == 2

\* Resolution of the modelled random stream: random() takes the values u / RngMod.
RngMod == 7

\* ------------------------------------------------------------- arithmetic
Max(a, b) == IF a >= b THEN a ELSE b

Min(a, b) == IF a <= b THEN a ELSE b

Abs(a) == IF a >= 0 THEN a ELSE -a

RECURSIVE Gcd(_, _)
Gcd(a, b) == IF b = 0 THEN a ELSE Gcd(b, a % b)

RECURSIVE LcmUpTo(_)
LcmUpTo(n) == IF n <= 1 THEN 1 ELSE (LcmUpTo(n - 1) * n) \div Gcd(LcmUpTo(n - 1), n)

\* Fixed-point resolution: 1 world unit = Scale model units.  Divisible by
\* every slice length up to MaxVerts + 1 and by 100 (the two-decimal
\* parameter defaults, their halves and the 0.95 roof factor).
Scale == 100 * LcmUpTo(MaxVerts + 1)

\* Python int(a / b) for b > 0: truncation toward zero.
PyInt(a, b) == IF a >= 0 THEN a \div b ELSE -((-a) \div b)

RECURSIVE SumSeq(_)
SumSeq(s) == IF s = <<>> THEN 0 ELSE Head(s) + SumSeq(Tail(s))

RECURSIVE MaxSeq(_)
MaxSeq(s) == IF Len(s) = 1 THEN s[1] ELSE Max(Head(s), MaxSeq(Tail(s)))

RECURSIVE MinSeq(_)
MinSeq(s) == IF Len(s) = 1 THEN s[1] ELSE Min(Head(s), MinSeq(Tail(s)))

\* list.sort(): ascending insertion of each element.
RECURSIVE InsertAsc(_, _)
InsertAsc(x, s) ==
    IF s = <<>> THEN <<x>>
    ELSE IF x <= Head(s) THEN <<x>> \o s
    ELSE <<Head(s)>> \o InsertAsc(x, Tail(s))

RECURSIVE SortAsc(_)
SortAsc(s) == IF s = <<>> THEN <<>> ELSE InsertAsc(Head(s), SortAsc(Tail(s)))

\* Python s[-k:]: -0 is 0 (the whole list); a k beyond the length is clamped.
PySliceLast(s, k) ==
    IF k <= 0 THEN s
    ELSE SubSeq(s, Max(Len(s) - k, 0) + 1, Len(s))

\* ------------------------------------------------------------ variables
VARIABLES
    \* SpecPlace
    cliffYs,      \* world Y of every cliff vertex, in enumeration order
    cliffBox,     \* exactWorldBoundingBox(cliff): <<minx,miny,minz,maxx,maxy,maxz>>
    towerLocal,   \* bounding box of the tower and its children, relative to its transform
    towerT,       \* world translation of the tower transform: <<tx,ty,tz>>
    placement,    \* PlacementParams: [top_ratio |-> <<num,den>>, y_offset |-> int]
    topY,         \* value returned by the last stable-top query
    prevYs,       \* the vertex heights before an outlier was injected
    ppc           \* position of the placement scenario

placeVars == <<cliffYs, cliffBox, towerLocal, towerT, placement, topY, prevYs, ppc>>

VARIABLES
    \* SpecNoise
    cparams,      \* CliffParams of the current CliffBuilder
    rng,          \* state of the process-wide random stream (module random)
    cubeVerts,    \* vertex positions <<x,y,z>> left by _create_base_cube, in enumeration order
    noise,        \* per vertex, what the last _apply_vertex_noise computed and applied
    runs,         \* history: one record per completed _apply_vertex_noise
    npc           \* position inside CliffBuilder.build

noiseVars == <<cparams, rng, cubeVerts, noise, runs, npc>>

VARIABLES
    \* Spec
    nodes,        \* the DAG of the scene: records [name, parent]
    shading,      \* per requested name, the shading (DG) nodes created for it so far
    cur,          \* transforms returned to the running build: [cliff, tower]
    caller,       \* "lighthouse" while a builder runs inside LighthouseBuilder.build
    builds,       \* top-level builds started
    lastOp,       \* how the last top-level call ended
    spc,          \* the method the running build is about to execute
    cliffBBox,    \* exactWorldBoundingBox of the cliff returned to the running build
    envGeo,       \* size and position the sea and the backdrop were created with
    lastCall      \* the last front-end call (build_lighthouse, run) and how it ended

sceneVars == <<nodes, shading, cur, caller, builds, lastOp, spc, cliffBBox, envGeo, lastCall>>

VARIABLES
    \* SpecTower
    tparams,      \* TowerParams of the current TowerBuilder
    host,         \* what the host does where the code relies on its defaults: [caps, probe]
    towerMesh,    \* the tower cylinder: [verts, faces], in the host's enumeration order
    faceSG,       \* per face of the tower, the shading group it is bound to
    bands,        \* one record per band _add_bands went through
    roofMesh,     \* the lantern roof sphere: [sx, sy, deleted]
    tpc           \* position inside TowerBuilder.build

meshVars == <<tparams, host, towerMesh, faceSG, bands, roofMesh, tpc>>

vars == <<placeVars, noiseVars, sceneVars, meshVars>>

\* Values a specification gives to the variables of the scenarios it leaves out.
PlaceIdle ==
    /\ cliffYs = <<>>
    /\ cliffBox = <<0, 0, 0, 0, 0, 0>>
    /\ towerLocal = <<0, 0, 0, 0, 0, 0>>
    /\ towerT = <<0, 0, 0>>
    /\ placement = [top_ratio |-> <<1, 10>>, y_offset |-> 0]
    /\ topY = 0
    /\ prevYs = <<>>
    /\ ppc = "off"

NoiseIdle ==
    /\ cparams = [width |-> 0, height |-> 0, depth |-> 0, sub_y |-> 1,
                  noise_amplitude |-> 0, seed |-> 0, enable_face_colors |-> FALSE]
    /\ rng = 0
    /\ cubeVerts = <<>>
    /\ noise = <<>>
    /\ runs = <<>>
    /\ npc = "off"

SceneIdle ==
    /\ nodes = {}
    /\ shading = <<>>
    /\ cur = <<>>
    /\ caller = "none"
    /\ builds = 0
    /\ lastOp = "none"
    /\ spc = "off"
    /\ cliffBBox = <<0, 0, 0, 0, 0, 0>>
    /\ envGeo = <<>>
    /\ lastCall = <<>>

MeshIdle ==
    /\ tparams = [quality |-> "draft"]
    /\ host = [caps |-> "fan", probe |-> "centre"]
    /\ towerMesh = [verts |-> <<>>, faces |-> <<>>]
    /\ faceSG = <<>>
    /\ bands = <<>>
    /\ roofMesh = [sx |-> 0, sy |-> 0, deleted |-> {}]
    /\ tpc = "off"

\* ===================================================== placement solver
\* LighthouseBuilder._get_cliff_top_y: top_count = max(1, int(len(ys) * top_ratio)).
TopCountNoMinimum(n, ratio) == PyInt(n * ratio[1], ratio[2])

TopCount(n, ratio) == Max(1, PyInt(n * ratio[1], ratio[2]))

\* The raw bounding-box maximum, whatever the vertices.
GetCliffTopYRawMax(ys, box, ratio) == IF ys = <<>> THEN box[5] ELSE MaxSeq(ys)

\* LighthouseBuilder._get_cliff_top_y(transform, top_ratio).  ys is the list of
\* pointPosition(v)[1] over cmds.ls(vtx[*]); box is exactWorldBoundingBox.
GetCliffTopY(ys, box, ratio) ==
    IF ys = <<>> THEN box[5]
    ELSE LET sorted == SortAsc(ys)
             top_count == TopCount(Len(sorted), ratio)
             top_slice == PySliceLast(sorted, top_count)
         IN  SumSeq(top_slice) \div Len(top_slice)

\* run_in_maya.get_cliff_top_y(transform, top_ratio): the same algorithm, duplicated.
get_cliff_top_y(ys, box, ratio) ==
    IF ys = <<>> THEN box[5]
    ELSE LET sorted == SortAsc(ys)
             top_count == Max(1, PyInt(Len(sorted) * ratio[1], ratio[2]))
             top_slice == PySliceLast(sorted, top_count)
         IN  SumSeq(top_slice) \div Len(top_slice)

\* x * 0.5 on a fixed-point value (exact on the modelled inputs).
Half(x) == x \div 2

\* Union of two boxes <<minx,miny,minz,maxx,maxy,maxz>>.
BoxUnion(a, b) ==
    <<Min(a[1], b[1]), Min(a[2], b[2]), Min(a[3], b[3]),
      Max(a[4], b[4]), Max(a[5], b[5]), Max(a[6], b[6])>>

\* A box centred at c = <<x,y,z>> with half extents h = <<hx,hy,hz>>.
BoxAt(c, h) == <<c[1] - h[1], c[2] - h[2], c[3] - h[3], c[1] + h[1], c[2] + h[2], c[3] + h[3]>>

\* A box moved by t = <<tx,ty,tz>>.
BoxMove(b, t) == <<b[1] + t[1], b[2] + t[2], b[3] + t[3], b[4] + t[1], b[5] + t[2], b[6] + t[3]>>

\* TowerParams defaults (tower.py), in fixed point.
TowerParams ==
    [height |-> 28 * Scale, radius_base |-> 4 * Scale,
     door_width |-> (16 * Scale) \div 10, door_height |-> (32 * Scale) \div 10,
     door_depth |-> (2 * Scale) \div 10,
     lantern_height |-> (35 * Scale) \div 10, lantern_radius |-> (22 * Scale) \div 10,
     lantern_roof_height |-> (14 * Scale) \div 10]

\* polyCylinder(h, r): centred on its transform, Y from -h/2 to h/2.
ShaftBox(p) == BoxAt(<<0, 0, 0>>, <<p.radius_base, Half(p.height), p.radius_base>>)

\* TowerBuilder._add_door: a cube resting on the tower's bbox min Y, in front
\* of its bbox max Z, parented to the tower.
WithDoor(box, p) ==
    LET cx == Half(box[1] + box[4])
        cz == box[6]
        y  == box[2] + Half(p.door_height)
        z  == cz + Half(p.door_depth)
    IN  BoxUnion(box, BoxAt(<<cx, y, z>>,
                            <<Half(p.door_width), Half(p.door_height), Half(p.door_depth)>>))

\* TowerBuilder._add_lantern: a cylinder on the tower's bbox max Y and a sphere
\* of radius 0.95 * lantern_radius above it, both parented to the tower.
WithLantern(box, p) ==
    LET cx == Half(box[1] + box[4])
        cz == Half(box[3] + box[6])
        top_y == box[5]
        lantern_y == top_y + Half(p.lantern_height)
        roof_r == (p.lantern_radius * 95) \div 100
        roof_y == top_y + p.lantern_height + Half(p.lantern_roof_height)
        body == BoxAt(<<cx, lantern_y, cz>>,
                      <<p.lantern_radius, Half(p.lantern_height), p.lantern_radius>>)
        \* the sphere's full box: culled or not, it adds only its top to the union
        roof == BoxAt(<<cx, roof_y, cz>>, <<roof_r, roof_r, roof_r>>)
    IN  BoxUnion(box, BoxUnion(body, roof))

\* TowerBuilder._add_details: the children-inclusive box of the tower,
\* relative to the tower transform.
TowerLocalBox(add_door, add_lantern) ==
    LET shaft == ShaftBox(TowerParams)
        d == IF add_door THEN WithDoor(shaft, TowerParams) ELSE shaft
    IN  IF add_lantern THEN WithLantern(d, TowerParams) ELSE d

\* cmds.exactWorldBoundingBox(tower): the groups above it carry no transform.
TowerWorldBox == BoxMove(towerLocal, towerT)

\* _place_tower_on_cliff with the vertical delta taken as the target itself.
PlacementDeltaAbsoluteY(base_bbox, base_top_y, y_offset, tower_bbox) ==
    <<Half(base_bbox[1] + base_bbox[4]) - Half(tower_bbox[1] + tower_bbox[4]),
      base_top_y + y_offset,
      Half(base_bbox[3] + base_bbox[6]) - Half(tower_bbox[3] + tower_bbox[6])>>

\* LighthouseBuilder._place_tower_on_cliff, steps 1-4: the deltas <<dx,dy,dz>>.
PlacementDelta(base_bbox, base_top_y, y_offset, tower_bbox) ==
    LET base_cx == Half(base_bbox[1] + base_bbox[4])
        base_cz == Half(base_bbox[3] + base_bbox[6])
        target_base_y == base_top_y + y_offset
        tow_cx == Half(tower_bbox[1] + tower_bbox[4])
        tow_cz == Half(tower_bbox[3] + tower_bbox[6])
        dx == base_cx - tow_cx
        dz == base_cz - tow_cz
        dy == target_base_y - tower_bbox[2]
    IN  <<dx, dy, dz>>

\* cmds.move(dx, dy, dz, node, r=True, ws=True).
MoveRelative(t, d) == <<t[1] + d[1], t[2] + d[2], t[3] + d[3]>>

\* run_in_maya.place_on_top: the world translation handed to cmds.xform(ws=True, t=...).
place_on_top(base_bbox, obj_bbox, base_top_y, y_offset) ==
    LET base_cx == Half(base_bbox[1] + base_bbox[4])
        base_cz == Half(base_bbox[3] + base_bbox[6])
        obj_height == obj_bbox[5] - obj_bbox[2]
        target_y == base_top_y + Half(obj_height) + y_offset
    IN  <<base_cx, target_y, base_cz>>

\* ---- inputs
Heights == {l * Scale : l \in 0..MaxLevel}

VertexLists == UNION {[1..n -> Heights] : n \in 0..MaxVerts}

\* top_ratio as <<numerator, denominator>>: 0, 0.10 (the default), 0.5, 0.9, 1.5, -0.5.
TopRatios == {<<0, 1>>, <<1, 10>>, <<1, 2>>, <<9, 10>>, <<3, 2>>, <<-1, 2>>}

\* y_offset: 0 and the default -0.20.
YOffsets == {0, -((2 * Scale) \div 10)}

\* Translations the tower may carry before placement.
PriorTranslations == {<<0, 0, 0>>, <<3, -7, 5>>}

\* A high spike: above every height, by one unit or by more than twice the range.
Outliers == {(MaxLevel + 1) * Scale, (3 * MaxLevel + 1) * Scale}

\* The cliff's bounding box: Y from its vertices; X and Z as left by the noise.
CliffBoxOf(ys, emptyBox) ==
    IF ys = <<>> THEN emptyBox
    ELSE <<-16 * Scale, MinSeq(ys), -15 * Scale, 15 * Scale, MaxSeq(ys), 17 * Scale>>

InitPlace ==
    /\ cliffYs \in VertexLists
    /\ cliffBox \in {CliffBoxOf(cliffYs, <<0, 0, 0, 0, h, 0>>) : h \in {0, Scale}}
    /\ \E d \in BOOLEAN, l \in BOOLEAN : towerLocal = TowerLocalBox(d, l)
    /\ towerT \in PriorTranslations
    /\ placement \in [top_ratio : TopRatios, y_offset : YOffsets]
    /\ topY = 0
    /\ prevYs = <<>>
    /\ ppc = "start"
    /\ NoiseIdle
    /\ SceneIdle
    /\ MeshIdle

\* LighthouseBuilder._get_cliff_top_y called on its own.
QueryCliffTopY ==
    /\ ppc = "start"
    /\ topY' = GetCliffTopY(cliffYs, cliffBox, placement.top_ratio)
    /\ ppc' = "queried"
    /\ UNCHANGED <<cliffYs, cliffBox, towerLocal, towerT, placement, prevYs, noiseVars, sceneVars, meshVars>>

\* LighthouseBuilder._place_tower_on_cliff(cliff_tr, tower_tr, placement).
PlaceTowerOnCliff ==
    /\ ppc \in {"start", "queried"}
    /\ LET base_top_y == GetCliffTopY(cliffYs, cliffBox, placement.top_ratio)
           d == PlacementDelta(cliffBox, base_top_y, placement.y_offset, TowerWorldBox)
       IN  /\ topY' = base_top_y
           /\ towerT' = MoveRelative(towerT, d)
    /\ ppc' = "placed"
    /\ UNCHANGED <<cliffYs, cliffBox, towerLocal, placement, prevYs, noiseVars, sceneVars, meshVars>>

\* run_in_maya.place_on_top(cliff, tower, base_top_y, y_offset), handed the
\* value of get_cliff_top_y as run() hands it (lines 79-80).
PlaceOnTop ==
    /\ ppc \in {"start", "queried"}
    /\ LET cliff_top_y == get_cliff_top_y(cliffYs, cliffBox, placement.top_ratio)
       IN  /\ topY' = cliff_top_y
           /\ towerT' = place_on_top(cliffBox, TowerWorldBox, cliff_top_y, placement.y_offset)
    /\ ppc' = "placedOnTop"
    /\ UNCHANGED <<cliffYs, cliffBox, towerLocal, placement, prevYs, noiseVars, sceneVars, meshVars>>

\* A vertex of the cliff is raised into a spike of height m (one more height in
\* the enumerated list), and the stable top is queried again.
InjectOutlier ==
    /\ ppc = "queried"
    /\ cliffYs # <<>>
    /\ \E m \in Outliers :
         /\ prevYs' = cliffYs
         /\ cliffYs' = Append(cliffYs, m)
         /\ cliffBox' = CliffBoxOf(Append(cliffYs, m), cliffBox)
         /\ topY' = GetCliffTopY(Append(cliffYs, m), cliffBox', placement.top_ratio)
    /\ ppc' = "injected"
    /\ UNCHANGED <<towerLocal, towerT, placement, noiseVars, sceneVars, meshVars>>

NextPlace == QueryCliffTopY \/ PlaceTowerOnCliff \/ PlaceOnTop \/ InjectOutlier

SpecPlace == InitPlace /\ [][NextPlace]_vars

\* ------------------------------------------------- placement: properties
RECURSIVE SumOver(_, _)
SumOver(I, ys) ==
    IF I = {} THEN 0
    ELSE LET i == CHOOSE x \in I : TRUE IN ys[i] + SumOver(I \ {i}, ys)

\* The tower's children-inclusive world box is centred on the cliff's box in X
\* and Z (equal centres = equal min+max sums) and its min Y is target_y.
RestsCentredAt(target_y) ==
    /\ TowerWorldBox[1] + TowerWorldBox[4] = cliffBox[1] + cliffBox[4]
    /\ TowerWorldBox[3] + TowerWorldBox[6] = cliffBox[3] + cliffBox[6]
    /\ TowerWorldBox[2] = target_y

StableTopPlusOffset == GetCliffTopY(cliffYs, cliffBox, placement.top_ratio) + placement.y_offset

\* C1: after _place_tower_on_cliff, for every prior translation of the tower
\* and every extent of its children, the tower's world box is centred on the
\* cliff's box in X and Z and its minimum Y is _get_cliff_top_y + y_offset.
C1_PlacementInvariant == ppc = "placed" => RestsCentredAt(StableTopPlusOffset)

\* C1 witness: a tower with door and lantern, carrying a translation, placed
\* on a cliff with the largest vertex list.
C1_Witness ==
    /\ ppc = "placed"
    /\ towerLocal = TowerLocalBox(TRUE, TRUE)
    /\ towerT # <<0, 0, 0>>
    /\ Len(cliffYs) = MaxVerts

\* C2 (as claimed): every placement operation, place_on_top included, leaves
\* the dependent mesh's box min Y at base_top_y + y_offset and its centre XZ
\* on the base's, wherever its pivot lies in its children-inclusive box.
C2_EveryPlacementRestsCentred ==
    ppc \in {"placed", "placedOnTop"} => RestsCentredAt(topY + placement.y_offset)

\* The number of vertices the claim averages: max(1, floor(n * top_ratio)), capped at n.
ClaimedTopCount(n, ratio) == Min(n, Max(1, (n * ratio[1]) \div ratio[2]))

\* C3: for n >= 1 vertices the stable top is the mean of the k largest vertex
\* Ys, k = max(1, floor(n * top_ratio)) capped at n, and lies between the mean
\* of all Ys and the largest Y; with no vertices it is the box's maximum Y.
C3_StableTopIsMeanOfTopK ==
    ppc # "start" =>
        IF cliffYs = <<>> THEN topY = cliffBox[5]
        ELSE LET n == Len(cliffYs)
                 k == ClaimedTopCount(n, placement.top_ratio)
             IN  /\ \E I \in SUBSET (1..n) :
                       /\ Cardinality(I) = k
                       /\ \A i \in I, j \in (1..n) \ I : cliffYs[j] <= cliffYs[i]
                       /\ topY * k = SumOver(I, cliffYs)
                 /\ SumOver(1..n, cliffYs) <= n * topY
                 /\ \A i \in 1..n : cliffYs[i] <= MaxSeq(cliffYs)
                 /\ topY <= MaxSeq(cliffYs)

\* C3 witness: a query whose result lies strictly between the mean of all
\* vertex heights and the largest one.
C3_Witness ==
    /\ ppc = "queried"
    /\ Len(cliffYs) = MaxVerts
    /\ SumSeq(cliffYs) < Len(cliffYs) * topY
    /\ topY < MaxSeq(cliffYs)

\* The injected spike is extreme: it exceeds the old maximum by more than
\* twice the old spread (max - min) of the heights.
ExtremeOutlier ==
    /\ ppc = "injected"
    /\ cliffYs[Len(cliffYs)] - MaxSeq(prevYs) > 2 * (MaxSeq(prevYs) - MinSeq(prevYs))

RatioBelowOne == placement.top_ratio[1] < placement.top_ratio[2]

StableTopChange == topY - GetCliffTopY(prevYs, cliffBox, placement.top_ratio)

RawMaxChange == MaxSeq(cliffYs) - MaxSeq(prevYs)

\* C4 (as claimed): for every height set and every top_ratio < 1, one extreme
\* high outlier changes the stable top by strictly less than the raw maximum.
C4_OutlierAlwaysDamped ==
    (ExtremeOutlier /\ RatioBelowOne) => StableTopChange < RawMaxChange

\* C4 (amended): the damping is strict when the top slice after the injection
\* holds at least two vertices (floor((n+1) * top_ratio) >= 2); when it holds
\* one, the stable top is the raw maximum and changes by exactly as much.
C4_OutlierDampedWhenSliceHasTwo ==
    (ExtremeOutlier /\ RatioBelowOne) =>
        IF Len(cliffYs) * placement.top_ratio[1] >= 2 * placement.top_ratio[2]
        THEN StableTopChange < RawMaxChange
        ELSE StableTopChange = RawMaxChange

\* C4 witness: an extreme spike injected where the top slice holds two or
\* more vertices, and the stable top moved less than the maximum.
C4_Witness ==
    /\ ExtremeOutlier
    /\ RatioBelowOne
    /\ Len(cliffYs) * placement.top_ratio[1] >= 2 * placement.top_ratio[2]
    /\ 0 < StableTopChange
    /\ StableTopChange < RawMaxChange

\* ====================================================== surface deformer
\* Lengths of the cliff are whole world units.  noise_amplitude is held in
\* tenths (12 = 1.2).  With hr the height range, a strength is a numerator
\* over 4 * hr * 10 and an offset or a deformed position a numerator over
\* FineDen(hr) = 4 * hr * 10 * RngMod * 100 (0.35 = 35/100).

\* cliff.py line 119: height_range = max(max_y - min_y, 0.0001).  The model's
\* lengths are whole units, so a range is 0 or at least 1; HeightEps stands
\* for the 0.0001 as the smallest positive length (y - min_y is 0 whenever
\* the clamp applies, so y_norm does not depend on its value).
HeightEps == 1

FineDen(hr) == 4 * hr * 10 * RngMod * 100

\* random.seed(n): the state the stream restarts from.
SeedState(n) == (3 * n + 1) % RngMod

\* random.seed(p.seed) left out: the stream goes on from where it was.
SeedStreamNotReseeded(st, n) == st

\* random.seed(n) on the process-wide stream in state st.
SeedStream(st, n) == SeedState(n)

\* One draw of random.random(): the next state; the value drawn is state / RngMod.
RngStep(st) == (st + 3) % RngMod

\* random.uniform(a, b) = a + (b - a) * random(), as a numerator over RngMod.
Uniform(a, b, u) == a * RngMod + (b - a) * u

\* strength that forgets the amplitude: 0.25 + 0.75 * y_norm.
StrengthIgnoringAmplitude(amp, y_off, hr) == 10 * (hr + 3 * y_off)

\* strength weighted toward the base instead of the top.
StrengthInverted(amp, y_off, hr) == amp * (hr + 3 * (hr - y_off))

\* cliff.py lines 123-126: y_norm = y_off / hr and
\* strength = noise_amplitude * (0.25 + 0.75 * y_norm), as a numerator over 4 * hr * 10.
Strength(amp, y_off, hr) == amp * (hr + 3 * y_off)

\* cmds.polyCube(w, h, d, sx=1, sy, sz=1): a box centred on the origin; the
\* vertices ring by ring from the bottom.  (The model keeps one subdivision
\* in X and Z and sub_y rings of faces in Y.)
polyCube(w, h, d, sy) ==
    [i \in 1..(4 * (sy + 1)) |->
        LET j == (i - 1) \div 4
            c == (i - 1) % 4
        IN  <<IF c \in {0, 2} THEN -(w \div 2) ELSE w \div 2,
              -(h \div 2) + (j * h) \div sy,
              IF c \in {0, 1} THEN d \div 2 ELSE -(d \div 2)>>]

\* Faces of that cube: sy rings of four side faces and the two caps.
FaceCount(sy) == 4 * sy + 2

RECURSIVE MinOf(_, _)
MinOf(vs, axis) ==
    IF Len(vs) = 1 THEN vs[1][axis] ELSE Min(Head(vs)[axis], MinOf(Tail(vs), axis))

RECURSIVE MaxOf(_, _)
MaxOf(vs, axis) ==
    IF Len(vs) = 1 THEN vs[1][axis] ELSE Max(Head(vs)[axis], MaxOf(Tail(vs), axis))

\* cmds.exactWorldBoundingBox of a mesh given by its vertex positions.
BoxOfVerts(vs) ==
    <<MinOf(vs, 1), MinOf(vs, 2), MinOf(vs, 3), MaxOf(vs, 1), MaxOf(vs, 2), MaxOf(vs, 3)>>

\* cliff.py lines 121-132: the loop over the vertices.  For each vertex, in
\* enumeration order: y_norm, strength, three draws, and the offset applied.
RECURSIVE NoiseLoop(_, _, _, _, _)
NoiseLoop(vs, st, min_y, hr, amp) ==
    IF vs = <<>> THEN <<>>
    ELSE LET pos == Head(vs)
             y_off == pos[2] - min_y
             strength == Strength(amp, y_off, hr)
             s1 == RngStep(st)
             s2 == RngStep(s1)
             s3 == RngStep(s2)
             rec == [y_off |-> y_off, hr |-> hr, strength |-> strength,
                     dx |-> Uniform(-strength, strength, s1) * 100,
                     dy |-> Uniform(-strength * 35, strength * 35, s2),
                     dz |-> Uniform(-strength, strength, s3) * 100,
                     rng |-> s3]
         IN  <<rec>> \o NoiseLoop(Tail(vs), s3, min_y, hr, amp)

RECURSIVE StepTimes(_, _)
StepTimes(st, n) == IF n = 0 THEN st ELSE StepTimes(RngStep(st), n - 1)

\* Positions of the deformed mesh, numerators over FineDen(hr).
Deformed(vs, ns) ==
    [i \in 1..Len(vs) |->
        <<vs[i][1] * FineDen(ns[i].hr) + ns[i].dx,
          vs[i][2] * FineDen(ns[i].hr) + ns[i].dy,
          vs[i][3] * FineDen(ns[i].hr) + ns[i].dz>>]

Displacements(ns) == [i \in 1..Len(ns) |-> <<ns[i].dx, ns[i].dy, ns[i].dz>>]

\* ---- inputs
CliffDims == {<<30, 10, 30>>, <<2, 0, 2>>}

CliffParamSets ==
    {[width |-> dm[1], height |-> dm[2], depth |-> dm[3], sub_y |-> sy,
      noise_amplitude |-> a, seed |-> sd, enable_face_colors |-> fc] :
        dm \in CliffDims, sy \in {1, 2}, a \in {0, 12}, sd \in {42, 7}, fc \in BOOLEAN}

InitNoise ==
    /\ PlaceIdle
    /\ SceneIdle
    /\ MeshIdle
    /\ cparams \in CliffParamSets
    /\ rng \in 0..(RngMod - 1)
    /\ cubeVerts = <<>>
    /\ noise = <<>>
    /\ runs = <<>>
    /\ npc = "new"

\* CliffBuilder._create_base_cube.
CreateBaseCube ==
    /\ npc = "new"
    /\ cubeVerts' = polyCube(cparams.width, cparams.height, cparams.depth, cparams.sub_y)
    /\ noise' = <<>>
    /\ npc' = "cube"
    /\ UNCHANGED <<cparams, rng, runs, placeVars, sceneVars, meshVars>>

\* CliffBuilder._apply_vertex_noise(transform).
ApplyVertexNoise ==
    /\ npc = "cube"
    /\ LET seeded == SeedStream(rng, cparams.seed)
           bbox == BoxOfVerts(cubeVerts)
           min_y == bbox[2]
           max_y == bbox[5]
           height_range == Max(max_y - min_y, HeightEps)
           ns == NoiseLoop(cubeVerts, seeded, min_y, height_range, cparams.noise_amplitude)
       IN  /\ noise' = ns
           /\ rng' = ns[Len(ns)].rng
           /\ runs' = Append(runs, [seed |-> cparams.seed, amp |-> cparams.noise_amplitude,
                                    verts |-> cubeVerts, rng_before |-> rng,
                                    disp |-> Displacements(ns)])
    /\ npc' = "noised"
    /\ UNCHANGED <<cparams, cubeVerts, placeVars, sceneVars, meshVars>>

\* CliffBuilder._apply_face_color_variation(transform): reseeds with
\* seed + 1000 and draws once per face; returns at once when disabled.
ApplyFaceColorVariation ==
    /\ npc = "noised"
    /\ rng' = IF cparams.enable_face_colors
              THEN StepTimes(SeedStream(rng, cparams.seed + 1000), FaceCount(cparams.sub_y))
              ELSE rng
    /\ npc' = "built"
    /\ UNCHANGED <<cparams, cubeVerts, noise, runs, placeVars, sceneVars, meshVars>>

\* Any other user of module random draws from the stream between two builds.
OtherRandomUse ==
    /\ npc = "built"
    /\ Len(runs) < 2
    /\ rng' = RngStep(rng)
    /\ UNCHANGED <<cparams, cubeVerts, noise, runs, npc, placeVars, sceneVars, meshVars>>

\* CliffBuilder(params): a second build, with parameters of its own (the
\* scenario follows two builds: the deformer's only memory is the stream).
NewCliffBuilder ==
    /\ npc = "built"
    /\ Len(runs) < 2
    /\ cparams' \in CliffParamSets
    /\ npc' = "new"
    /\ UNCHANGED <<rng, cubeVerts, noise, runs, placeVars, sceneVars, meshVars>>

NextNoise ==
    \/ CreateBaseCube
    \/ ApplyVertexNoise
    \/ ApplyFaceColorVariation
    \/ OtherRandomUse
    \/ NewCliffBuilder

SpecNoise == InitNoise /\ [][NextNoise]_vars

\* -------------------------------------------------- deformer: properties
\* C8: for a fixed (seed, noise_amplitude) and the same initial vertices in
\* the same order, two runs of _apply_vertex_noise apply identical per-vertex
\* displacements, whatever the random stream held before each run.
C8_NoiseDeterministic ==
    \A i, j \in 1..Len(runs) :
        (/\ runs[i].seed = runs[j].seed
         /\ runs[i].amp = runs[j].amp
         /\ runs[i].verts = runs[j].verts) => runs[i].disp = runs[j].disp

\* C8 witness: two runs with the same seed, amplitude and vertices, started
\* from different states of the stream, with some vertex actually displaced.
C8_Witness ==
    /\ Len(runs) = 2
    /\ runs[1].seed = runs[2].seed
    /\ runs[1].amp = runs[2].amp
    /\ runs[1].verts = runs[2].verts
    /\ runs[1].rng_before # runs[2].rng_before
    /\ \E i \in 1..Len(runs[2].disp) : runs[2].disp[i] # <<0, 0, 0>>

\* noise_amplitude as a numerator over FineDen(hr).
AmpFine(hr) == cparams.noise_amplitude * 4 * hr * RngMod * 100

\* C9: every vertex gets y_norm in [0,1] and strength = noise_amplitude *
\* (0.25 + 0.75 * y_norm); its X and Z offsets lie in [-strength, strength]
\* and its Y offset in [-0.35 * strength, 0.35 * strength]; a vertex with a
\* smaller y_norm has no larger strength, and a base vertex moves by at most
\* 25% of the amplitude along each axis.
C9_HeightWeightedOffsets ==
    npc \in {"noised", "built"} =>
        /\ \A i \in 1..Len(noise) :
             LET n == noise[i]
                 s == n.strength * RngMod * 100
             IN  /\ 0 <= n.y_off /\ n.y_off <= n.hr
                 /\ n.strength = cparams.noise_amplitude * n.hr
                                    + 3 * cparams.noise_amplitude * n.y_off
                 /\ Abs(n.dx) <= s
                 /\ Abs(n.dz) <= s
                 /\ 100 * Abs(n.dy) <= 35 * s
                 /\ n.y_off = 0 =>
                        /\ 4 * Abs(n.dx) <= AmpFine(n.hr)
                        /\ 4 * Abs(n.dz) <= AmpFine(n.hr)
                        /\ 4 * Abs(n.dy) <= AmpFine(n.hr)
        /\ \A a, b \in 1..Len(noise) :
             noise[a].y_off * noise[b].hr < noise[b].y_off * noise[a].hr
                 => noise[a].strength <= noise[b].strength

\* C9 witness: a deformed cliff with vertices at three heights, one of them
\* displaced by more than a base vertex could be.
C9_Witness ==
    /\ npc = "noised"
    /\ cparams.noise_amplitude > 0
    /\ \E a, b, c \in 1..Len(noise) :
         /\ noise[a].y_off = 0
         /\ noise[a].y_off < noise[b].y_off
         /\ noise[b].y_off < noise[c].y_off
         /\ noise[a].dx # 0
         /\ 4 * Abs(noise[c].dx) > AmpFine(noise[c].hr)

\* The world bounding box of the built cliff, in whole units (defined when
\* every deformed coordinate of the box is a whole number of units).
BuiltBoxIs(box) ==
    BoxOfVerts(Deformed(cubeVerts, noise))
        = [k \in 1..6 |-> box[k] * FineDen(noise[1].hr)]

BuiltDefaultUndeformed ==
    /\ npc = "built"
    /\ cparams.width = 30 /\ cparams.height = 10 /\ cparams.depth = 30
    /\ cparams.noise_amplitude = 0

\* C10 (as claimed): width=30, height=10, depth=30, noise_amplitude=0 and any
\* seed yield a cliff whose world box is exactly (-15,0,-15) to (15,10,15).
C10_BoxFromGround == BuiltDefaultUndeformed => BuiltBoxIs(<<-15, 0, -15, 15, 10, 15>>)

\* C10 (amended): amplitude 0 displaces no vertex, and the box is the
\* origin-centred cube (-15,-5,-15) to (15,5,15).
C10_BoxCentred ==
    BuiltDefaultUndeformed =>
        /\ \A i \in 1..Len(noise) : noise[i].dx = 0 /\ noise[i].dy = 0 /\ noise[i].dz = 0
        /\ BuiltBoxIs(<<-15, -5, -15, 15, 5, 15>>)

\* C10 witness: such a cliff built, its stream having been seeded and drawn from.
C10_Witness ==
    /\ BuiltDefaultUndeformed
    /\ Len(noise) = 12
    /\ cparams.seed = 7
    /\ rng # runs[Len(runs)].rng_before

\* ============================================================ scene graph
\* A DAG node is [name |-> <<base, k>>, parent |-> name]: base is the name the
\* code asked for and k the suffix the host appends to keep names unique
\* (k = 0: none).  Shading nodes are dependency-graph nodes: they hang under no
\* transform and cmds.delete(ROOT_GRP) leaves them in the scene.
World == <<"|", 0>>

ROOT_GRP == <<"LHT_root_GRP", 0>>

CLIFF_GRP == <<"LHT_cliff_GRP", 0>>

TOWER_GRP == <<"LHT_tower_GRP", 0>>

ENV_GRP == <<"LHT_env_GRP", 0>>

SEA_GEO == <<"LHT_sea_GEO", 0>>

BACKDROP_GEO == <<"LHT_backdrop_GEO", 0>>

LIGHT_TR == <<"LHT_keyLight", 0>>

GroupNames == {"LHT_root_GRP", "LHT_cliff_GRP", "LHT_tower_GRP", "LHT_env_GRP"}

\* A material stands for the pair it is created with (shader and its SG).
ShadingNames ==
    {"LHT_cliff_MAT", "LHT_tower_MAT", "LHT_towerWhite_MAT", "LHT_towerRed_MAT",
     "LHT_towerBlue_MAT", "LHT_sea_MAT", "LHT_backdrop_MAT",
     "LHT_seaNoise", "LHT_seaDisp", "LHT_seaDispSG"}

Names(ns) == {n.name : n \in ns}

\* cmds.objExists(name) for a DAG name.
ObjExists(ns, nm) == nm \in Names(ns)

\* The name the host gives a new node asked to be called base.
FreshName(ns, base) ==
    <<base, CHOOSE k \in 0..Cardinality(ns) :
                /\ <<base, k>> \notin Names(ns)
                /\ \A j \in 0..(k - 1) : <<base, j>> \in Names(ns)>>

\* A creation command followed by cmds.parent(node, parent).
CreateNode(ns, base, parent) == ns \cup {[name |-> FreshName(ns, base), parent |-> parent]}

\* The group is created without asking whether it exists.
EnsureGroupUnchecked(ns, grp, parent) == CreateNode(ns, grp[1], parent)

\* if not cmds.objExists(G): cmds.group(empty=True, name=G, parent=P).
EnsureGroup(ns, grp, parent) ==
    IF ObjExists(ns, grp) THEN ns ELSE CreateNode(ns, grp[1], parent)

\* Whether nm is top or lies below it (the tree is at most four deep).
RECURSIVE IsUnder(_, _, _, _)
IsUnder(ns, nm, top, fuel) ==
    \/ nm = top
    \/ /\ fuel > 0
       /\ \E n \in ns : n.name = nm /\ n.parent # World /\ IsUnder(ns, n.parent, top, fuel - 1)

\* Only the node and its direct children are removed.
DeleteShallow(ns, top) == {n \in ns : n.name # top /\ n.parent # top}

\* cmds.delete(node): the node and everything below it.
DeleteSubtree(ns, top) == {n \in ns : ~IsUnder(ns, n.name, top, Cardinality(ns))}

\* if not cmds.objExists(name): cmds.shadingNode(..., name=name) (and its SG).
GetOrCreateShading(sh, nm) == IF sh[nm] > 0 THEN sh ELSE [sh EXCEPT ![nm] = 1]

\* cmds.shadingNode(..., name=name) with no existence test: one more node.
CreateShading(sh, nm) == [sh EXCEPT ![nm] = sh[nm] + 1]

\* ---- presets (config.py) and the front end (simple_ui.py, run_in_maya.py)
\* A string is a sequence of letters, each with its case.
Lit(w) == [i \in 1..Len(w) |-> [c |-> w[i], up |-> FALSE]]

\* str.lower().
Lower(name) == [i \in 1..Len(name) |-> [name[i] EXCEPT !.up = FALSE]]

SHUTTER == Lit(<<"s", "h", "u", "t", "t", "e", "r">>)

CALM == Lit(<<"c", "a", "l", "m">>)

STORM == Lit(<<"s", "t", "o", "r", "m">>)

\* Fields of the dataclass CliffParams (cliff.py lines 19-33).
CliffParamsFields ==
    {"name", "width", "height", "depth", "sub_x", "sub_y", "sub_z", "noise_amplitude",
     "seed", "enable_face_colors", "face_color_base", "face_color_variation"}

\* Fields of the dataclass TowerParams (tower.py lines 17-37).
TowerParamsFields ==
    {"name", "height", "radius_base", "radius_top", "subdivisions_axis",
     "subdivisions_height", "quality", "add_bands", "band_count", "band_height_ratio",
     "band_outset", "add_door", "door_width", "door_height", "door_depth",
     "add_lantern", "lantern_height", "lantern_radius", "lantern_roof_height"}

Returned(v) == [raised |-> "none", message |-> <<>>, value |-> v]

Raised(kind, text, what) ==
    [raised |-> kind, message |-> [text |-> text, name |-> what], value |-> <<>>]

\* The __init__ a dataclass generates, called with keywords: a keyword that is
\* no field raises TypeError.
NewDataclass(fields, kwargs) ==
    IF DOMAIN kwargs \subseteq fields THEN Returned(kwargs)
    ELSE Raised("TypeError", "unexpected keyword argument",
                Lit(<<CHOOSE k \in DOMAIN kwargs : k \notin fields>>))

\* LighthouseParams(cliff=CliffParams(...), tower=TowerParams(...), placement=...):
\* the arguments are evaluated in order, and the first that raises ends the call.
NewLighthouseParams(cliff_kw, tower_kw, placement_params) ==
    LET cliff == NewDataclass(CliffParamsFields, cliff_kw)
        tower == NewDataclass(TowerParamsFields, tower_kw)
    IN  IF cliff.raised # "none" THEN cliff
        ELSE IF tower.raised # "none" THEN tower
        ELSE Returned([cliff |-> cliff.value, tower |-> tower.value,
                       placement |-> placement_params])

\* An unknown name falls through to the last preset.
get_presetDefaulting(name, quality) ==
    NewLighthouseParams(
        [quality |-> quality, width |-> 45, height |-> 18, depth |-> 45,
         noise_amplitude |-> 22, seed |-> 27],
        [quality |-> quality, height |-> 34, radius_base |-> 40, radius_top |-> 25],
        [top_ratio |-> <<6, 100>>, y_offset |-> -45])

\* config.get_preset(name, quality).  Lengths in whole units, noise_amplitude
\* and radii in tenths, top_ratio as <<num, den>>, y_offset in hundredths.
get_preset(name, quality) ==
    LET n == Lower(name)
    IN  IF n = SHUTTER
        THEN NewLighthouseParams(
                 [quality |-> quality, width |-> 40, height |-> 14, depth |-> 40,
                  noise_amplitude |-> 18, seed |-> 11],
                 [quality |-> quality, height |-> 30, radius_base |-> 42, radius_top |-> 28],
                 [top_ratio |-> <<8, 100>>, y_offset |-> -35])
        ELSE IF n = CALM
        THEN NewLighthouseParams(
                 [quality |-> quality, width |-> 32, height |-> 10, depth |-> 32,
                  noise_amplitude |-> 10, seed |-> 3],
                 [quality |-> quality, height |-> 26, radius_base |-> 40, radius_top |-> 35],
                 [top_ratio |-> <<10, 100>>, y_offset |-> -25])
        ELSE IF n = STORM
        THEN NewLighthouseParams(
                 [quality |-> quality, width |-> 45, height |-> 18, depth |-> 45,
                  noise_amplitude |-> 22, seed |-> 27],
                 [quality |-> quality, height |-> 34, radius_base |-> 40, radius_top |-> 25],
                 [top_ratio |-> <<6, 100>>, y_offset |-> -45])
        ELSE Raised("ValueError", "Unknown preset", n)

\* run_in_maya.run lines 59-77: the two parameter records it constructs.
RunParams ==
    LET cliff_params == NewDataclass(CliffParamsFields,
                            [quality |-> "draft", width |-> 35, height |-> 12, depth |-> 35,
                             sub_x |-> 50, sub_y |-> 25, sub_z |-> 50,
                             noise_amplitude |-> 14, seed |-> 7])
        tower_params == NewDataclass(TowerParamsFields,
                            [quality |-> "draft", height |-> 28, radius_base |-> 40,
                             radius_top |-> 30])
    IN  IF cliff_params.raised # "none" THEN cliff_params
        ELSE IF tower_params.raised # "none" THEN tower_params
        ELSE Returned([cliff |-> cliff_params.value, tower |-> tower_params.value])

\* CliffBuilder.cleanup on the DAG.
CleanupNodes(ns) == IF ObjExists(ns, ROOT_GRP) THEN DeleteSubtree(ns, ROOT_GRP) ELSE ns

\* build_lighthouse resolving the preset first and cleaning up only once it has one.
build_lighthouseResolveFirst(ns, preset, quality) ==
    LET params == get_preset(Lower(preset), quality)
    IN  [nodes |-> IF params.raised = "none" THEN CleanupNodes(ns) ELSE ns, params |-> params]

\* simple_ui.build_lighthouse lines 40-41: LighthouseBuilder.cleanup(), then
\* get_preset(preset.lower(), quality).
build_lighthouse(ns, preset, quality) ==
    LET cleaned == CleanupNodes(ns)
        params == get_preset(Lower(preset), quality)
    IN  [nodes |-> cleaned, params |-> params]

\* A word written in lower case, in upper case, capitalised (as the menu
\* labels are) and in mixed case.
CaseVariants(w) ==
    {[i \in 1..Len(w) |-> [c |-> w[i].c, up |-> i \in U]] :
        U \in {{}, 1..Len(w), {1}, {2, Len(w)}}}

\* Values of the preset menu: the three presets in several letter cases, and
\* names that are no preset (others, a preset with a letter more or less, none).
PresetInputs ==
    CaseVariants(SHUTTER) \cup CaseVariants(CALM) \cup CaseVariants(STORM)
        \cup CaseVariants(Lit(<<"f", "o", "g">>))
        \cup {Lit(<<"c", "a", "l", "m", "s">>), Lit(<<"s", "t", "o", "r">>), <<>>}

NoCall == [fn |-> "none"]

\* ---- environment geometry (lighthouse.py lines 135-175)
NoGeo == [w |-> 0, h |-> 0, t |-> <<0, 0, 0>>]

\* The sea plane: polyPlane(w=size_x, h=size_z) moved to (cx, min_y - 3, cz).
SeaGeo(bbox) ==
    LET cx == Half(bbox[1] + bbox[4])
        cz == Half(bbox[3] + bbox[6])
        size_x == (bbox[4] - bbox[1]) * 6
        size_z == (bbox[6] - bbox[3]) * 6
        sea_y == bbox[2] - 3 * Scale
    IN  [w |-> size_x, h |-> size_z, t |-> <<cx, sea_y, cz>>]

\* The backdrop plane: polyPlane(w=size_x * 0.9, h=(max_y - min_y) * 4) moved
\* to (cx, min_y + (max_y - min_y) * 1.2, min_z - size_z * 0.25).
BackdropGeo(bbox) ==
    LET cx == Half(bbox[1] + bbox[4])
        size_x == (bbox[4] - bbox[1]) * 6
        size_z == (bbox[6] - bbox[3]) * 6
        back_y == bbox[2] + ((bbox[5] - bbox[2]) * 12) \div 10
        back_z == bbox[3] - (size_z * 25) \div 100
    IN  [w |-> (size_x * 9) \div 10, h |-> (bbox[5] - bbox[2]) * 4, t |-> <<cx, back_y, back_z>>]

\* The sea is built whatever the scene holds.
SeaMissingUnchecked(ns) == TRUE

\* lighthouse.py line 144: if not cmds.objExists(self.SEA_GEO).
SeaMissing(ns) == ~ObjExists(ns, SEA_GEO)

\* lighthouse.py line 162: if not cmds.objExists(self.BACKDROP_GEO).
BackdropMissing(ns) == ~ObjExists(ns, BACKDROP_GEO)

\* Geometry of the meshes cmds.delete left in the scene.
SurvivingGeo(ns, geo) ==
    [sea |-> IF ObjExists(ns, SEA_GEO) THEN geo.sea ELSE NoGeo,
     backdrop |-> IF ObjExists(ns, BACKDROP_GEO) THEN geo.backdrop ELSE NoGeo]

\* Bounding boxes of the cliffs the builds make: the default 30 x 10 x 30 cube
\* and the 'storm' 45 x 18 x 45 one, off-centre after the noise.
SceneCliffBoxes ==
    {<<-15 * Scale, -5 * Scale, -15 * Scale, 15 * Scale, 5 * Scale, 15 * Scale>>,
     <<-23 * Scale, -9 * Scale, -22 * Scale, 22 * Scale, 10 * Scale, 24 * Scale>>}

InitScene ==
    /\ PlaceIdle
    /\ NoiseIdle
    /\ MeshIdle
    /\ nodes = {}
    /\ shading = [nm \in ShadingNames |-> 0]
    /\ cur = [cliff |-> World, tower |-> World]
    /\ caller = "none"
    /\ builds = 0
    /\ lastOp = "none"
    /\ spc = "idle"
    /\ cliffBBox = <<0, 0, 0, 0, 0, 0>>
    /\ envGeo = [sea |-> NoGeo, backdrop |-> NoGeo]
    /\ lastCall = NoCall

\* CliffBuilder(params).build() called on its own (run_in_maya.run).
StartCliffBuild ==
    /\ spc = "idle" /\ builds < MaxBuilds
    /\ spc' = "cliff_ensure_groups"
    /\ caller' = "none"
    /\ builds' = builds + 1
    /\ lastOp' = "running"
    /\ lastCall' = NoCall
    /\ UNCHANGED <<nodes, shading, cur, cliffBBox, envGeo, placeVars, noiseVars, meshVars>>

\* TowerBuilder(params).build() called on its own (run_in_maya.run).
StartTowerBuild ==
    /\ spc = "idle" /\ builds < MaxBuilds
    /\ spc' = "tower_ensure_groups"
    /\ caller' = "none"
    /\ builds' = builds + 1
    /\ lastOp' = "running"
    /\ lastCall' = NoCall
    /\ UNCHANGED <<nodes, shading, cur, cliffBBox, envGeo, placeVars, noiseVars, meshVars>>

\* LighthouseBuilder(params).build(): starts with CliffBuilder.build.
StartLighthouseBuild ==
    /\ spc = "idle" /\ builds < MaxBuilds
    /\ spc' = "cliff_ensure_groups"
    /\ caller' = "lighthouse"
    /\ builds' = builds + 1
    /\ lastOp' = "running"
    /\ lastCall' = NoCall
    /\ UNCHANGED <<nodes, shading, cur, cliffBBox, envGeo, placeVars, noiseVars, meshVars>>

\* CliffBuilder._ensure_groups.
CliffEnsureGroups ==
    /\ spc = "cliff_ensure_groups"
    /\ nodes' = EnsureGroup(EnsureGroup(nodes, ROOT_GRP, World), CLIFF_GRP, ROOT_GRP)
    /\ spc' = "cliff_create_base_cube"
    /\ UNCHANGED <<shading, cur, caller, builds, lastOp, cliffBBox, envGeo, lastCall, placeVars, noiseVars, meshVars>>

\* CliffBuilder._create_base_cube, then _apply_vertex_noise and
\* _apply_face_color_variation, which add and remove no node.
CliffCreateBaseCube ==
    /\ spc = "cliff_create_base_cube"
    /\ nodes' = CreateNode(nodes, "cliff_GEO", CLIFF_GRP)
    /\ cur' = [cur EXCEPT !.cliff = FreshName(nodes, "cliff_GEO")]
    /\ cliffBBox' \in SceneCliffBoxes
    /\ spc' = "cliff_assign_material"
    /\ UNCHANGED <<shading, caller, builds, lastOp, envGeo, lastCall, placeVars, noiseVars, meshVars>>

\* CliffBuilder._assign_material.
CliffAssignMaterial ==
    /\ spc = "cliff_assign_material"
    /\ shading' = GetOrCreateShading(shading, "LHT_cliff_MAT")
    /\ spc' = "cliff_ensure_preview_light"
    /\ UNCHANGED <<nodes, cur, caller, builds, lastOp, cliffBBox, envGeo, lastCall, placeVars, noiseVars, meshVars>>

\* CliffBuilder._ensure_preview_light, and the return of CliffBuilder.build.
\* cmds.createNode("directionalLight", name="LHT_keyLightShape") names the
\* shape; which name the host gives the transform above it is the host's
\* choice: LHT_keyLight or a default one.
CliffEnsurePreviewLight ==
    /\ spc = "cliff_ensure_preview_light"
    /\ IF ObjExists(nodes, LIGHT_TR) THEN nodes' = nodes
       ELSE \E base \in {"LHT_keyLight", "directionalLight"} :
                nodes' = CreateNode(nodes, base, ROOT_GRP)
    /\ spc' = IF caller = "lighthouse" THEN "tower_ensure_groups" ELSE "idle"
    /\ lastOp' = IF caller = "lighthouse" THEN lastOp ELSE "built"
    /\ UNCHANGED <<shading, cur, caller, builds, cliffBBox, envGeo, lastCall, placeVars, noiseVars, meshVars>>

\* TowerBuilder._ensure_groups.
TowerEnsureGroups ==
    /\ spc = "tower_ensure_groups"
    /\ nodes' = EnsureGroup(EnsureGroup(nodes, ROOT_GRP, World), TOWER_GRP, ROOT_GRP)
    /\ spc' = "tower_create_tapered_cylinder"
    /\ UNCHANGED <<shading, cur, caller, builds, lastOp, cliffBBox, envGeo, lastCall, placeVars, noiseVars, meshVars>>

\* TowerBuilder._create_tapered_cylinder.
TowerCreateTaperedCylinder ==
    /\ spc = "tower_create_tapered_cylinder"
    /\ nodes' = CreateNode(nodes, "tower_GEO", TOWER_GRP)
    /\ cur' = [cur EXCEPT !.tower = FreshName(nodes, "tower_GEO")]
    /\ spc' = "tower_assign_material"
    /\ UNCHANGED <<shading, caller, builds, lastOp, cliffBBox, envGeo, lastCall, placeVars, noiseVars, meshVars>>

\* TowerBuilder._assign_material.
TowerAssignMaterial ==
    /\ spc = "tower_assign_material"
    /\ shading' = GetOrCreateShading(shading, "LHT_tower_MAT")
    /\ spc' = "tower_add_details"
    /\ UNCHANGED <<nodes, cur, caller, builds, lastOp, cliffBBox, envGeo, lastCall, placeVars, noiseVars, meshVars>>

\* TowerBuilder._setup_band_materials (called by _add_bands).
SetupBandMaterials(sh) ==
    GetOrCreateShading(
        GetOrCreateShading(GetOrCreateShading(sh, "LHT_towerWhite_MAT"), "LHT_towerRed_MAT"),
        "LHT_towerBlue_MAT")

\* TowerBuilder._add_door: the door cube, parented to the tower transform.
AddDoor(ns, tower_tr) == CreateNode(ns, "towerDoor_GEO", tower_tr)

\* TowerBuilder._add_lantern: lantern body and roof, parented to the tower transform.
AddLantern(ns, tower_tr) ==
    CreateNode(CreateNode(ns, "lantern_GEO", tower_tr), "lanternRoof_GEO", tower_tr)

\* TowerBuilder._add_details with its three toggles, and the return of
\* TowerBuilder.build.
TowerAddDetails ==
    /\ spc = "tower_add_details"
    /\ \E add_bands \in BOOLEAN, add_door \in BOOLEAN, add_lantern \in BOOLEAN :
         /\ shading' = IF add_bands THEN SetupBandMaterials(shading) ELSE shading
         /\ LET d == IF add_door THEN AddDoor(nodes, cur.tower) ELSE nodes
            IN  nodes' = IF add_lantern THEN AddLantern(d, cur.tower) ELSE d
    /\ spc' = IF caller = "lighthouse" THEN "place_tower_on_cliff" ELSE "idle"
    /\ lastOp' = IF caller = "lighthouse" THEN lastOp ELSE "built"
    /\ UNCHANGED <<cur, caller, builds, cliffBBox, envGeo, lastCall, placeVars, noiseVars, meshVars>>

\* LighthouseBuilder._place_tower_on_cliff: moves the tower; no node changes.
ScenePlaceTower ==
    /\ spc = "place_tower_on_cliff"
    /\ spc' = "build_environment"
    /\ UNCHANGED <<nodes, shading, cur, caller, builds, lastOp, cliffBBox, envGeo, lastCall, placeVars, noiseVars, meshVars>>

\* LighthouseBuilder._apply_sea_waves.
ApplySeaWaves(sh) ==
    GetOrCreateShading(CreateShading(CreateShading(sh, "LHT_seaNoise"), "LHT_seaDisp"),
                       "LHT_seaDispSG")

\* LighthouseBuilder._build_environment, and the return of LighthouseBuilder.build.
BuildEnvironment ==
    /\ spc = "build_environment"
    /\ LET g == EnsureGroup(nodes, ENV_GRP, ROOT_GRP)
           bbox == cliffBBox
           make_sea == SeaMissing(g)
           s == IF make_sea THEN CreateNode(g, "LHT_sea_GEO", ENV_GRP) ELSE g
           sh1 == IF make_sea
                  THEN GetOrCreateShading(ApplySeaWaves(shading), "LHT_sea_MAT")
                  ELSE shading
           make_back == BackdropMissing(s)
       IN  /\ nodes' = IF make_back THEN CreateNode(s, "LHT_backdrop_GEO", ENV_GRP) ELSE s
           /\ shading' = IF make_back THEN GetOrCreateShading(sh1, "LHT_backdrop_MAT") ELSE sh1
           /\ envGeo' = [sea |-> IF make_sea THEN SeaGeo(bbox) ELSE envGeo.sea,
                         backdrop |-> IF make_back THEN BackdropGeo(bbox) ELSE envGeo.backdrop]
    /\ spc' = "idle"
    /\ lastOp' = "built"
    /\ UNCHANGED <<cur, caller, builds, cliffBBox, lastCall, placeVars, noiseVars, meshVars>>

\* A host command raises inside a build: the build stops where it is.
AbortBuild ==
    /\ spc # "idle"
    /\ spc' = "idle"
    /\ lastOp' = "aborted"
    /\ UNCHANGED <<nodes, shading, cur, caller, builds, cliffBBox, envGeo, lastCall, placeVars, noiseVars, meshVars>>

\* CliffBuilder.cleanup (LighthouseBuilder.cleanup calls it).
Cleanup ==
    /\ spc = "idle"
    /\ nodes' = IF ObjExists(nodes, ROOT_GRP) THEN DeleteSubtree(nodes, ROOT_GRP) ELSE nodes
    /\ envGeo' = SurvivingGeo(nodes', envGeo)
    /\ lastOp' = "cleanup"
    /\ lastCall' = NoCall
    /\ UNCHANGED <<shading, cur, caller, builds, spc, cliffBBox, placeVars, noiseVars, meshVars>>

\* simple_ui.build_lighthouse with the menu's preset and the check box's
\* quality: cleanup, get_preset and, with parameters in hand,
\* LighthouseBuilder(params).build().
BuildLighthouse ==
    /\ spc = "idle"
    /\ \E preset \in PresetInputs, high \in BOOLEAN :
         \E call \in {build_lighthouse(nodes, preset, IF high THEN "high" ELSE "draft")} :
            LET ok == call.params.raised = "none"
            IN  /\ ok => builds < MaxBuilds
                /\ nodes' = call.nodes
                /\ envGeo' = SurvivingGeo(nodes', envGeo)
                /\ lastCall' = [fn |-> "build_lighthouse", preset |-> preset,
                                 quality |-> IF high THEN "high" ELSE "draft",
                                 result |-> call.params,
                                 removed |-> Cardinality(nodes \ nodes')]
                /\ spc' = IF ok THEN "cliff_ensure_groups" ELSE "idle"
                /\ caller' = IF ok THEN "lighthouse" ELSE caller
                /\ builds' = IF ok THEN builds + 1 ELSE builds
                /\ lastOp' = IF ok THEN "running" ELSE "failed"
    /\ UNCHANGED <<shading, cur, cliffBBox, placeVars, noiseVars, meshVars>>

\* run_in_maya.run: CliffBuilder.cleanup(), then the parameter records and,
\* with them in hand, CliffBuilder(cliff_params).build() (the tower follows it).
Run ==
    /\ spc = "idle"
    /\ LET ok == RunParams.raised = "none"
       IN  /\ ok => builds < MaxBuilds
           /\ nodes' = CleanupNodes(nodes)
           /\ envGeo' = SurvivingGeo(nodes', envGeo)
           /\ lastCall' = [fn |-> "run", preset |-> <<>>, quality |-> "draft",
                            result |-> RunParams,
                            removed |-> Cardinality(nodes \ nodes')]
           /\ spc' = IF ok THEN "cliff_ensure_groups" ELSE "idle"
           /\ caller' = IF ok THEN "none" ELSE caller
           /\ builds' = IF ok THEN builds + 1 ELSE builds
           /\ lastOp' = IF ok THEN "running" ELSE "failed"
    /\ UNCHANGED <<shading, cur, cliffBBox, placeVars, noiseVars, meshVars>>

Next ==
    \/ StartCliffBuild
    \/ StartTowerBuild
    \/ StartLighthouseBuild
    \/ CliffEnsureGroups
    \/ CliffCreateBaseCube
    \/ CliffAssignMaterial
    \/ CliffEnsurePreviewLight
    \/ TowerEnsureGroups
    \/ TowerCreateTaperedCylinder
    \/ TowerAssignMaterial
    \/ TowerAddDetails
    \/ ScenePlaceTower
    \/ BuildEnvironment
    \/ AbortBuild
    \/ Cleanup

Spec == InitScene /\ [][Next]_vars

\* The front end: build_lighthouse and run, cleanup, and LighthouseBuilder
\* builds (complete or aborted) as what a call finds in the scene.
NextUI ==
    \/ BuildLighthouse
    \/ Run
    \/ Cleanup
    \/ StartLighthouseBuild
    \/ CliffEnsureGroups
    \/ CliffCreateBaseCube
    \/ CliffAssignMaterial
    \/ CliffEnsurePreviewLight
    \/ TowerEnsureGroups
    \/ TowerCreateTaperedCylinder
    \/ TowerAssignMaterial
    \/ TowerAddDetails
    \/ ScenePlaceTower
    \/ BuildEnvironment
    \/ AbortBuild

SpecUI == InitScene /\ [][NextUI]_vars

\* ------------------------------------------------------ scene: properties
GroupsNamed(ns, g) == {n \in ns : n.name[1] = g}

\* At most one group per well-known name; the root hangs under nothing and
\* each sub-group is a direct child of the root, which then exists.
OneGroupPerName ==
    /\ \A g \in GroupNames : Cardinality(GroupsNamed(nodes, g)) <= 1
    /\ \A n \in GroupsNamed(nodes, "LHT_root_GRP") : n.parent = World
    /\ \A g \in GroupNames \ {"LHT_root_GRP"} :
         \A n \in GroupsNamed(nodes, g) :
            /\ n.parent = ROOT_GRP
            /\ ObjExists(nodes, ROOT_GRP)

\* A group-ensuring step that finds its groups in the scene creates nothing.
SecondEnsureCreatesNothing ==
    /\ (spc = "cliff_ensure_groups" /\ spc' = "cliff_create_base_cube"
            /\ ObjExists(nodes, ROOT_GRP) /\ ObjExists(nodes, CLIFF_GRP)) => nodes' = nodes
    /\ (spc = "tower_ensure_groups" /\ spc' = "tower_create_tapered_cylinder"
            /\ ObjExists(nodes, ROOT_GRP) /\ ObjExists(nodes, TOWER_GRP)) => nodes' = nodes
    /\ (spc = "build_environment" /\ spc' = "idle" /\ lastOp' = "built"
            /\ ObjExists(nodes, ENV_GRP)) => GroupsNamed(nodes', "LHT_env_GRP")
                                                = GroupsNamed(nodes, "LHT_env_GRP")

\* C5: after any sequence of CliffBuilder.build, TowerBuilder.build,
\* LighthouseBuilder.build and cleanup calls (complete or aborted), at most
\* one group exists per well-known name, each sub-group is a direct child of
\* the single root, and an ensure step run a second time creates nothing.
C5_IdempotentGroups == [](OneGroupPerName) /\ [][SecondEnsureCreatesNothing]_vars

\* C5 witness: a second build has just run _ensure_groups on a scene that
\* still holds the first build's cliff, and there is one group of each name.
C5_Witness ==
    /\ spc = "cliff_create_base_cube"
    /\ builds = 2
    /\ ObjExists(nodes, <<"cliff_GEO", 0>>)
    /\ ObjExists(nodes, ENV_GRP)
    /\ \A g \in GroupNames : Cardinality(GroupsNamed(nodes, g)) = 1

\* The step is a call of cleanup().
IsCleanupStep == spc = "idle" /\ spc' = "idle" /\ lastOp' = "cleanup"

C7_ShadingCreatedOnce ==
    spc # "off" => \A nm \in ShadingNames : shading[nm] <= 1

\* ------------------------------------------- presets and front end: properties
ValidPreset(name) == Lower(name) \in {SHUTTER, CALM, STORM}

\* C12 (as claimed): for every preset name in {shutter, calm, storm} in any
\* letter case and either quality, get_preset returns a bundle whose cliff and
\* tower both carry the quality, and so do the records run() constructs.
C12_PresetsCarryQuality ==
    /\ (lastCall.fn = "build_lighthouse" /\ ValidPreset(lastCall.preset)) =>
            /\ lastCall.result.raised = "none"
            /\ lastCall.result.value.cliff.quality = lastCall.quality
            /\ lastCall.result.value.tower.quality = lastCall.quality
    /\ lastCall.fn = "run" =>
            /\ lastCall.result.raised = "none"
            /\ lastCall.result.value.cliff.quality = lastCall.quality
            /\ lastCall.result.value.tower.quality = lastCall.quality

\* The step is a call of build_lighthouse.
IsBuildLighthouseStep == spc = "idle" /\ lastCall'.fn = "build_lighthouse"

\* C13: for every preset name outside {shutter, calm, storm}, get_preset
\* raises an error that names the preset (in lower case), and build_lighthouse
\* has by then created no node and no material and starts no build.
C13_UnknownPresetFailsFast ==
    [][(IsBuildLighthouseStep /\ ~ValidPreset(lastCall'.preset)) =>
          /\ lastCall'.result.raised = "ValueError"
          /\ lastCall'.result.message.text = "Unknown preset"
          /\ lastCall'.result.message.name = Lower(lastCall'.preset)
          /\ nodes' \subseteq nodes
          /\ shading' = shading
          /\ spc' = "idle"
          /\ lastOp' = "failed"]_vars

\* C13 witness: build_lighthouse has failed on a name that is no preset,
\* written with an upper-case letter, in a scene that held a lighthouse.
C13_Witness ==
    /\ lastCall.fn = "build_lighthouse"
    /\ ~ValidPreset(lastCall.preset)
    /\ \E i \in 1..Len(lastCall.preset) : lastCall.preset[i].up
    /\ lastCall.result.raised = "ValueError"
    /\ lastCall.removed > 0
    /\ lastOp = "failed"

UnderRoot(ns) == {n \in ns : IsUnder(ns, n.name, ROOT_GRP, Cardinality(ns))}

\* C17: every build_lighthouse call removes the root and all that was under it
\* before it resolves the preset; when it fails, nothing is under the root, so
\* the previous lighthouse is never left in place.
C17_CleanupBeforeResolution ==
    /\ []((lastCall.fn = "build_lighthouse" /\ lastOp = "failed") => UnderRoot(nodes) = {})
    /\ [][IsBuildLighthouseStep =>
             /\ \A n \in UnderRoot(nodes) : n \notin nodes'
             /\ lastOp' \in {"failed", "running"}
             /\ lastCall'.removed = Cardinality(UnderRoot(nodes))]_vars

\* C17 witness: a call that failed in get_preset on a scene holding a complete
\* lighthouse (root, three groups, cliff, light, tower, sea, backdrop).
C17_Witness ==
    /\ lastCall.fn = "build_lighthouse"
    /\ lastOp = "failed"
    /\ lastCall.result.raised # "none"
    /\ lastCall.removed >= 9
    /\ shading["LHT_backdrop_MAT"] = 1
    /\ UnderRoot(nodes) = {}

\* ------------------------------------------------- environment: properties
SeaNodes(ns) == {n \in ns : n.name[1] = "LHT_sea_GEO"}

BackdropNodes(ns) == {n \in ns : n.name[1] = "LHT_backdrop_GEO"}

\* C16: at most one sea and one backdrop exist, whatever builds and cleanups
\* have run; one appears only in a _build_environment that found none; and a
\* step that leaves them in the scene (a further build without cleanup, on a
\* cliff with another bounding box) leaves their size and position unchanged.
C16_EnvironmentBuiltOnce ==
    /\ [](Cardinality(SeaNodes(nodes)) <= 1 /\ Cardinality(BackdropNodes(nodes)) <= 1)
    /\ [][/\ ~(SeaNodes(nodes') \subseteq SeaNodes(nodes)) =>
                (spc = "build_environment" /\ SeaNodes(nodes) = {})
          /\ ~(BackdropNodes(nodes') \subseteq BackdropNodes(nodes)) =>
                (spc = "build_environment" /\ BackdropNodes(nodes) = {})
          /\ (SeaNodes(nodes) # {} /\ SeaNodes(nodes') # {}) => envGeo'.sea = envGeo.sea
          /\ (BackdropNodes(nodes) # {} /\ BackdropNodes(nodes') # {}) =>
                envGeo'.backdrop = envGeo.backdrop]_vars

\* C16 witness: a second LighthouseBuilder.build has completed with no cleanup
\* in between, on a cliff whose box is not the one the sea and the backdrop
\* were sized from.
C16_Witness ==
    /\ lastOp = "built"
    /\ caller = "lighthouse"
    /\ cur.cliff = <<"cliff_GEO", 1>>
    /\ Cardinality(SeaNodes(nodes)) = 1
    /\ Cardinality(BackdropNodes(nodes)) = 1
    /\ envGeo.sea # SeaGeo(cliffBBox)
    /\ envGeo.backdrop # BackdropGeo(cliffBBox)

\* ============================================================= tower mesh
\* The tower cylinder and the lantern roof, face by face.  Lengths are in
\* fixed point (Scale).  The host is the source of three facts the code does
\* not state: the order of vertices and faces of a primitive (sides ring by
\* ring from the bottom, then the bottom cap, then the top cap), the topology
\* of a cylinder cap when polyCylinder is given no cap subdivisions (a fan of
\* triangles around a centre vertex, or one n-sided face), and what
\* cmds.xform(face, q=True, ws=True, t=True) lists first (the face's centre, or
\* the position of one of its vertices).  The last two are left open: host.caps
\* and host.probe range over the outcomes.
HostBehaviours == [caps : {"fan", "ngon"}, probe : {"centre", "first", "last"}]

\* tower.py lines 66-71: <<sub_ax, sub_h>>.
TowerSubdivisions(p) ==
    IF p.quality = "draft" THEN <<16, 6>> ELSE <<p.subdivisions_axis, p.subdivisions_height>>

\* Vertices of cmds.polyCylinder(h, r, sx, sy): sy + 1 rings of sx vertices
\* from the bottom, then (fan caps) the bottom and the top centre.
CylinderVerts(h, r, sx, sy, caps) ==
    LET ring == [i \in 1..(sx * (sy + 1)) |->
                    [ring |-> (i - 1) \div sx, rad |-> r, centre |-> FALSE,
                     y |-> -Half(h) + (((i - 1) \div sx) * h) \div sy]]
    IN  IF caps = "fan"
        THEN ring \o <<[ring |-> 0, rad |-> 0, centre |-> TRUE, y |-> -Half(h)],
                       [ring |-> sy, rad |-> 0, centre |-> TRUE, y |-> -Half(h) + h]>>
        ELSE ring

\* Faces of one cap on ring j, whose centre vertex (fan caps) has id c.
CapFaces(kind, j, sx, caps, c) ==
    IF caps = "fan"
    THEN [t \in 1..sx |-> [kind |-> kind, verts |-> <<j * sx + t, j * sx + (t % sx) + 1, c>>]]
    ELSE <<[kind |-> kind, verts |-> [t \in 1..sx |-> j * sx + t]]>>

\* Faces of cmds.polyCylinder(h, r, sx, sy): each names its vertices by id.
CylinderFaces(sx, sy, caps) ==
    LET side == [i \in 1..(sx * sy) |->
                    LET k == (i - 1) \div sx
                        t == (i - 1) % sx
                    IN  [kind |-> "side",
                         verts |-> <<k * sx + t + 1, k * sx + ((t + 1) % sx) + 1,
                                     (k + 1) * sx + ((t + 1) % sx) + 1, (k + 1) * sx + t + 1>>]]
    IN  side \o CapFaces("bottom", 0, sx, caps, sx * (sy + 1) + 1)
             \o CapFaces("top", sy, sx, caps, sx * (sy + 1) + 2)

polyCylinder(h, r, sx, sy, caps) ==
    [verts |-> CylinderVerts(h, r, sx, sy, caps), faces |-> CylinderFaces(sx, sy, caps)]

\* cmds.polyListComponentConversion(face, toVertex=True): the ids of its vertices.
FaceToVertices(mesh, f) == {mesh.faces[f].verts[i] : i \in 1..Len(mesh.faces[f].verts)}

\* cmds.scale(scale, 1.0, scale, verts, r=True, os=True) with scale = num / den:
\* the listed vertices move toward the local Y axis.
ScaleXZ(mesh, ids, num, den) ==
    [mesh EXCEPT !.verts = [i \in 1..Len(mesh.verts) |->
        IF i \in ids THEN [mesh.verts[i] EXCEPT !.rad = (mesh.verts[i].rad * num) \div den]
        ELSE mesh.verts[i]]]

\* tower.py lines 85-97: the taper.  0.0001 is Scale / 10000 in fixed point.
Taper(mesh, p) ==
    LET top_faces == mesh.faces
    IN  IF top_faces # <<>>
        THEN LET top_cap == Len(top_faces)
                 verts == FaceToVertices(mesh, top_cap)
             IN  IF verts # {} /\ p.radius_base * 10000 > Scale
                 THEN ScaleXZ(mesh, verts, p.radius_top, p.radius_base)
                 ELSE mesh
        ELSE mesh

\* TowerBuilder._create_tapered_cylinder: the mesh it returns.
TaperedCylinder(p, caps) ==
    LET sub == TowerSubdivisions(p)
    IN  Taper(polyCylinder(p.height, p.radius_base, sub[1], sub[2], caps), p)

\* ---- inputs
TowerRadii == {<<4 * Scale, 2 * Scale>>, <<4 * Scale, 3 * Scale>>, <<0, 3 * Scale>>}

TowerParamSets ==
    {[quality |-> q, height |-> TowerParams.height, radius_base |-> r[1], radius_top |-> r[2],
      subdivisions_axis |-> 24, subdivisions_height |-> 10,
      add_bands |-> b, add_lantern |-> l] :
        q \in {"draft", "high"}, r \in TowerRadii, b \in BOOLEAN, l \in BOOLEAN}

InitTower ==
    /\ PlaceIdle
    /\ NoiseIdle
    /\ SceneIdle
    /\ tparams \in TowerParamSets
    /\ host \in HostBehaviours
    /\ towerMesh = [verts |-> <<>>, faces |-> <<>>]
    /\ faceSG = <<>>
    /\ bands = <<>>
    /\ roofMesh = [sx |-> 0, sy |-> 0, deleted |-> {}]
    /\ tpc = "create_tapered_cylinder"

\* TowerBuilder._create_tapered_cylinder.
CreateTaperedCylinder ==
    /\ tpc = "create_tapered_cylinder"
    /\ towerMesh' = TaperedCylinder(tparams, host.caps)
    /\ tpc' = "assign_material"
    /\ UNCHANGED <<tparams, host, faceSG, bands, roofMesh, placeVars, noiseVars, sceneVars>>

TOWER_SG == "LHT_tower_MATSG"

WHITE_SG == "LHT_towerWhite_MATSG"

BLUE_SG == "LHT_towerBlue_MATSG"

\* TowerBuilder._assign_material: cmds.sets(transform, forceElement=sg) binds every face.
AssignMaterial ==
    /\ tpc = "assign_material"
    /\ faceSG' = [f \in 1..Len(towerMesh.faces) |-> TOWER_SG]
    /\ tpc' = "add_details"
    /\ UNCHANGED <<tparams, host, towerMesh, bands, roofMesh, placeVars, noiseVars, sceneVars>>

\* The Y of the centre of face f: the mean of its vertices' Y.
FaceCentreY(mesh, f) ==
    LET vs == mesh.faces[f].verts
    IN  SumSeq([i \in 1..Len(vs) |-> mesh.verts[vs[i]].y]) \div Len(vs)

\* cmds.xform(f, q=True, ws=True, t=True)[1]: the Y of what the host lists first.
ProbeY(mesh, f, probe) ==
    LET vs == mesh.faces[f].verts
    IN  CASE probe = "centre" -> FaceCentreY(mesh, f)
          [] probe = "first" -> mesh.verts[vs[1]].y
          [] probe = "last" -> mesh.verts[vs[Len(vs)]].y

\* Python faces[::stride] over n faces: the indices 1, 1 + stride, ... (1-based).
StrideSample(n, stride) == {i \in 1..n : (i - 1) % stride = 0}

\* cmds.exactWorldBoundingBox(transform)[1] and [4] of the tower mesh.
MeshMinY(mesh) ==
    LET ys == {mesh.verts[i].y : i \in 1..Len(mesh.verts)}
    IN  CHOOSE m \in ys : \A y \in ys : m <= y

MeshMaxY(mesh) ==
    LET ys == {mesh.verts[i].y : i \in 1..Len(mesh.verts)}
    IN  CHOOSE m \in ys : \A y \in ys : m >= y

\* tower.py line 133: height * (0.06 if high else 0.09).
BandHalfThickness(height, quality) == (height * (IF quality = "high" THEN 6 ELSE 9)) \div 100

\* tower.py lines 135-136: the faces the band loop tests.
FacesIter(mesh, quality) ==
    IF quality = "high" THEN 1..Len(mesh.faces) ELSE StrideSample(Len(mesh.faces), 3)

\* tower.py lines 139-145: band_faces for the band at rel / 100.
BandFaces(mesh, p, probe, rel) ==
    LET min_y == MeshMinY(mesh)
        max_y == MeshMaxY(mesh)
        height == Max(max_y - min_y, HeightEps)
        y_target == min_y + (height * rel) \div 100
        band_half_thickness == BandHalfThickness(height, p.quality)
    IN  {f \in FacesIter(mesh, p.quality) :
            Abs(ProbeY(mesh, f, probe) - y_target) <= band_half_thickness}

\* tower.py line 150: white for even bands, blue for odd ones.
BandSG(i) == IF i % 2 = 0 THEN WHITE_SG ELSE BLUE_SG

\* tower.py lines 138-151: the loop over rel_positions, from band i on.
RECURSIVE BandLoop(_, _, _, _, _, _)
BandLoop(mesh, p, probe, rels, i, acc) ==
    IF rels = <<>> THEN acc
    ELSE LET band_faces == BandFaces(mesh, p, probe, Head(rels))
             sg == BandSG(i)
             fsg == IF band_faces = {} THEN acc.faceSG
                    ELSE [f \in 1..Len(acc.faceSG) |->
                             IF f \in band_faces THEN sg ELSE acc.faceSG[f]]
             rec == [i |-> i, rel |-> Head(rels), faces |-> band_faces,
                     sg |-> IF band_faces = {} THEN "skipped" ELSE sg,
                     changed |-> {f \in 1..Len(fsg) : fsg[f] # acc.faceSG[f]}]
         IN  BandLoop(mesh, p, probe, Tail(rels), i + 1,
                      [faceSG |-> fsg, bands |-> Append(acc.bands, rec)])

\* TowerBuilder._add_bands: band_count = 3 and rel_positions = [0.25, 0.50, 0.75][:3].
AddBands(mesh, fsg, p, probe) ==
    LET band_count == 3
        rel_positions == SubSeq(<<25, 50, 75>>, 1, band_count)
    IN  BandLoop(mesh, p, probe, rel_positions, 0, [faceSG |-> fsg, bands |-> <<>>])

\* cmds.polySphere(r, sx, sy): sx * sy faces.  The host lists the quads ring
\* by ring from the bottom (rings 1 .. sy - 2), then the triangles at the
\* bottom pole (ring 0), then those at the top pole (ring sy - 1).
SphereFaceRing(f, sx, sy) ==
    IF f <= sx * (sy - 2) THEN 1 + (f - 1) \div sx
    ELSE IF f <= sx * (sy - 1) THEN 0
    ELSE sy - 1

\* Heights on the sphere, kept in order rather than in length: vertex ring k
\* (0 the bottom pole, sy the top pole) stands at level 2k - sy and the centre
\* of a face of ring k between its two vertex rings, at 2k + 1 - sy; the
\* sphere's own centre is level 0.
SphereProbeY(f, sx, sy, probe) ==
    LET k == SphereFaceRing(f, sx, sy)
    IN  CASE probe = "centre" -> 2 * k + 1 - sy
          [] probe = "first" -> 2 * k - sy
          [] probe = "last" -> 2 * k + 2 - sy

\* tower.py lines 212-229: the roof sphere and the faces handed to cmds.delete.
\* roof_center is the new sphere's translation: the origin.
CullRoof(p, probe) ==
    LET sx == IF p.quality = "draft" THEN 18 ELSE 28
        sy == IF p.quality = "draft" THEN 10 ELSE 16
        faces == 1..(sx * sy)
        roof_center_y == 0
        tested == IF p.quality = "draft" THEN StrideSample(sx * sy, 8) ELSE faces
        to_delete == {f \in tested : SphereProbeY(f, sx, sy, probe) < roof_center_y}
    IN  [sx |-> sx, sy |-> sy, deleted |-> to_delete]

\* TowerBuilder._add_details: bands and lantern as the toggles say (the door
\* adds a cube and touches no face of the tower or of the roof).
AddDetails ==
    /\ tpc = "add_details"
    /\ LET b == AddBands(towerMesh, faceSG, tparams, host.probe)
       IN  IF tparams.add_bands
           THEN faceSG' = b.faceSG /\ bands' = b.bands
           ELSE UNCHANGED <<faceSG, bands>>
    /\ roofMesh' = IF tparams.add_lantern THEN CullRoof(tparams, host.probe) ELSE roofMesh
    /\ tpc' = "built"
    /\ UNCHANGED <<tparams, host, towerMesh, placeVars, noiseVars, sceneVars>>

NextTower == CreateTaperedCylinder \/ AssignMaterial \/ AddDetails

SpecTower == InitTower /\ [][NextTower]_vars

\* ------------------------------------------------- tower mesh: properties
TopRing(mesh, sy) == {i \in 1..Len(mesh.verts) : mesh.verts[i].ring = sy /\ ~mesh.verts[i].centre}

BaseRing(mesh) == {i \in 1..Len(mesh.verts) : mesh.verts[i].ring = 0 /\ ~mesh.verts[i].centre}

\* C11 (as claimed): after _create_tapered_cylinder with radius_base > 0.0001
\* every vertex of the top ring lies at horizontal distance radius_top from
\* the local Y axis and every vertex of the base ring at radius_base; with
\* radius_base <= 0.0001 the cylinder is the one polyCylinder made.
C11_TopRingTapered ==
    tpc \in {"assign_material", "add_details", "built"} =>
        LET sub == TowerSubdivisions(tparams)
        IN  IF tparams.radius_base * 10000 > Scale
            THEN /\ TopRing(towerMesh, sub[2]) # {}
                 /\ \A i \in TopRing(towerMesh, sub[2]) : towerMesh.verts[i].rad = tparams.radius_top
                 /\ \A i \in BaseRing(towerMesh) : towerMesh.verts[i].rad = tparams.radius_base
            ELSE towerMesh = polyCylinder(tparams.height, tparams.radius_base,
                                          sub[1], sub[2], host.caps)

\* Faces of the roof sphere whose centre lies below the sphere's own centre.
BelowCentre(sx, sy) == {f \in 1..(sx * sy) : SphereProbeY(f, sx, sy, "centre") < 0}

\* C14 (as claimed): after _add_lantern, at either quality, every face of the
\* roof sphere whose centroid Y is below the sphere's centre has been deleted
\* and no face at or above it has.
C14_DomeCulled ==
    (tpc = "built" /\ tparams.add_lantern) =>
        roofMesh.deleted = BelowCentre(roofMesh.sx, roofMesh.sy)

\* The faces the claim has the band at rel / 100 rebind: the tested faces
\* (all at 'high', every 3rd at 'draft') whose centroid Y is within the band
\* half-thickness of min_y + rel * height.
ClaimedBandFaces(rel) ==
    LET n == Len(towerMesh.faces)
        min_y == MeshMinY(towerMesh)
        height == MeshMaxY(towerMesh) - min_y
        half == (height * (IF tparams.quality = "high" THEN 6 ELSE 9)) \div 100
        tested == IF tparams.quality = "high" THEN 1..n
                  ELSE {f \in 1..n : \E j \in 0..n : f = 3 * j + 1}
    IN  {f \in tested : Abs(FaceCentreY(towerMesh, f) - (min_y + (rel * height) \div 100)) <= half}

\* C15 (as claimed): each band rebinds exactly the tested faces whose centroid
\* Y lies within the half-thickness of its target; even bands get the white
\* material and odd ones the blue; a band with no such face changes nothing.
C15_BandsByCentroid ==
    (tpc = "built" /\ tparams.add_bands) =>
        /\ Len(bands) = 3
        /\ \A b \in 1..Len(bands) :
             LET band == bands[b]
             IN  /\ band.i = b - 1
                 /\ band.faces = ClaimedBandFaces(band.rel)
                 /\ band.faces # {} =>
                        /\ band.sg = (IF band.i % 2 = 0 THEN WHITE_SG ELSE BLUE_SG)
                        /\ band.changed = band.faces
                 /\ band.faces = {} => band.sg = "skipped" /\ band.changed = {}

====
